---- MODULE Spec2Model ----
(***************************************************************************)
(* QR-decomposition linear solver of                                       *)
(* linear_algebra/solving_equations/QR_method/QR_functions.py.              *)
(*                                                                         *)
(* Numbers.  The program computes with Python numbers.  The model keeps    *)
(* the exact value of every intermediate result: a number is (n/d)*sqrt(r) *)
(* with n an integer, d a positive integer, gcd(n,d) = 1 and r a           *)
(* square-free positive integer.  Rounding of IEEE doubles is NOT          *)
(* modelled: the properties checked here are properties of the algorithm   *)
(* in exact arithmetic.  Every sum the program forms adds numbers with the *)
(* same radical r (see NoIrrationalSum); a sum outside that form would be  *)
(* the value NaR, which no reachable state holds.                          *)
(*                                                                         *)
(* Matrices are Python lists of lists: a sequence of vectors.              *)
(***************************************************************************)
EXTENDS Integers, Sequences, FiniteSets, TLC

----------------------------------------------------------------------------
(* Bounds of the checked inputs *)
MaxVal == 1
MaxRows == 3
MaxCols == 3

----------------------------------------------------------------------------
(* Exact numbers *)

Abs(k) == IF k < 0 THEN 0 - k ELSE k

RECURSIVE GCD(_, _)
GCD(a, b) == IF b = 0 THEN a ELSE GCD(b, a % b)

\* The largest k with k*k dividing x (x >= 1), found by trial from k upwards.
RECURSIVE SquarePart(_, _)
SquarePart(x, k) ==
    IF k * k > x THEN 1
    ELSE IF x % (k * k) = 0 THEN k * SquarePart(x \div (k * k), k)
    ELSE SquarePart(x, k + 1)

Zero == [n |-> 0, d |-> 1, r |-> 1]
One == [n |-> 1, d |-> 1, r |-> 1]
\* A sum of two numbers with different radicals: not of the form (n/d)*sqrt(r).
NaR == [n |-> 0, d |-> 0, r |-> 0]

\* (n/d)*sqrt(r) in normal form, for d > 0 and r >= 1.
MkNum(n, d, r) ==
    IF n = 0 THEN Zero
    ELSE LET k == SquarePart(r, 2)
             nn == n * k
             g == GCD(Abs(nn), d)
         IN [n |-> nn \div g, d |-> d \div g, r |-> r \div (k * k)]

Int2Num(k) == MkNum(k, 1, 1)

IsNaR(a) == a.d = 0
IsZero(a) == a.d # 0 /\ a.n = 0

Neg(a) == [a EXCEPT !.n = 0 - a.n]

Add(a, b) ==
    IF IsNaR(a) \/ IsNaR(b) THEN NaR
    ELSE IF IsZero(a) THEN b
    ELSE IF IsZero(b) THEN a
    ELSE IF a.r = b.r THEN MkNum(a.n * b.d + b.n * a.d, a.d * b.d, a.r)
    ELSE NaR

Sub(a, b) == Add(a, Neg(b))

Times(a, b) ==
    IF IsNaR(a) \/ IsNaR(b) THEN NaR
    ELSE MkNum(a.n * b.n, a.d * b.d, a.r * b.r)

\* a / b for b # 0:  1/((n/d)*sqrt(r)) = (d/(n*r))*sqrt(r).
Divide(a, b) ==
    IF IsNaR(a) \/ IsNaR(b) THEN NaR
    ELSE Times(a, MkNum((IF b.n < 0 THEN 0 - 1 ELSE 1) * b.d, Abs(b.n) * b.r, b.r))

\* sqrt of a rational a >= 0:  sqrt(n/d) = sqrt(n*d)/d.
Sqrt(a) ==
    IF IsNaR(a) \/ a.r # 1 \/ a.n < 0 THEN NaR
    ELSE IF a.n = 0 THEN Zero
    ELSE MkNum(1, a.d, a.n * a.d)

----------------------------------------------------------------------------
(* Results of calls: a value, or the exception the call raised *)

Ok(v) == [err |-> "none", val |-> v]
Raise(e) == [err |-> e, val |-> <<>>]
Failed(res) == res.err # "none"

----------------------------------------------------------------------------
(* linear_algebra.functions: the toolkit QR_functions.py imports.           *)
(* Its file is not among the sources; it is modelled from the interface     *)
(* the specification gives for it (section 6).                              *)

RECURSIVE DotSum(_, _, _)
DotSum(f, u, i) ==
    IF i = 0 THEN Zero ELSE Add(DotSum(f, u, i - 1), Times(f[i], u[i]))

Dot(u, v) == DotSum(u, v, Len(u))

\* mul(f, u): inner product of two vectors of equal length.
mul(f, u) ==
    IF Len(f) # Len(u) THEN Raise("ShapeMismatch") ELSE Ok(DotSum(f, u, Len(f)))

\* get_vector_norm(v): sqrt of the sum of squares.
get_vector_norm(v) == Sqrt(DotSum(v, v, Len(v)))

IsRectangular(X) == \A i \in 1..Len(X) : Len(X[i]) = Len(X[1])

\* transpose(X): element [j][i] of the result is X[i][j].
transpose(X) ==
    IF X = <<>> \/ ~IsRectangular(X) THEN Raise("ShapeMismatch")
    ELSE Ok([j \in 1..Len(X[1]) |-> [i \in 1..Len(X) |-> X[i][j]]])

RECURSIVE ProdSum(_, _, _, _, _)
ProdSum(X, Y, i, j, k) ==
    IF k = 0 THEN Zero ELSE Add(ProdSum(X, Y, i, j, k - 1), Times(X[i][k], Y[k][j]))

\* matmul(X, Y): the matrix product; the inner dimensions must agree.
matmul(X, Y) ==
    IF X = <<>> \/ Y = <<>> \/ ~IsRectangular(X) \/ ~IsRectangular(Y)
       \/ Len(X[1]) # Len(Y)
    THEN Raise("ShapeMismatch")
    ELSE Ok([i \in 1..Len(X) |-> [j \in 1..Len(Y[1]) |-> ProdSum(X, Y, i, j, Len(Y))]])

\* X without row i and column j.
Minor(X, i, j) ==
    [a \in 1..(Len(X) - 1) |->
        [c \in 1..(Len(X) - 1) |->
            X[IF a < i THEN a ELSE a + 1][IF c < j THEN c ELSE c + 1]]]

RECURSIVE Det(_)
RECURSIVE DetSum(_, _)
\* Laplace expansion along the first row, columns 1..j.
DetSum(X, j) ==
    IF j = 0 THEN Zero
    ELSE LET term == Times(X[1][j], Det(Minor(X, 1, j)))
         IN Add(DetSum(X, j - 1), IF j % 2 = 1 THEN term ELSE Neg(term))
Det(X) == IF Len(X) = 0 THEN One ELSE DetSum(X, Len(X))

Cofactor(X, i, j) ==
    LET d == Det(Minor(X, i, j)) IN IF (i + j) % 2 = 0 THEN d ELSE Neg(d)

\* inverse(X): the inverse of a square invertible matrix (adjugate over determinant).
inverse(X) ==
    IF X = <<>> \/ ~IsRectangular(X) \/ Len(X[1]) # Len(X) THEN Raise("SingularMatrix")
    ELSE LET d == Det(X)
         IN IF IsZero(d) THEN Raise("SingularMatrix")
            ELSE Ok([i \in 1..Len(X) |-> [j \in 1..Len(X) |-> Divide(Cofactor(X, j, i), d)]])

\* split_by_vectors(M): the coefficient vectors and the answer vector.
split_by_vectors(M) == [A |-> SubSeq(M, 1, Len(M) - 1), b |-> M[Len(M)]]

----------------------------------------------------------------------------
(* QR_functions.py.  Python indexes from 0, the model from 1: column c of   *)
(* the model is column c-1 of the program.                                  *)

VARIABLES
    M,       \* the augmented matrix passed to solve_with_qr_decomposition
    A,       \* the caller's coefficient matrix object: a list of vectors
    b,       \* the answer vector
    U,       \* orthogonalize_matrix: the matrix being orthogonalized
    shared,  \* the columns c for which U[c] and A[c] are one list object
    qshared, \* normalize_matrix: the lists of Q are the list objects of U
    Qn,      \* the matrix normalize_matrix returned
    Q,       \* qr_decomposition: Q after "Q = transpose(Q)"
    At,      \* qr_decomposition: its local A after "A = transpose(A)"
    R,       \* the matrix get_r_matrix returned
    x,       \* the vector get_equation_params returned
    pc,      \* the statement the call is at
    err,     \* the exception that ended the call, "none" if none
    cur,     \* orthogonalize_matrix: current_column
    prev,    \* orthogonalize_matrix: prev_column
    work,    \* projections, norms, products and inverses computed so far
    held     \* the contents of the caller's matrix when it was passed in

vars == <<M, A, b, U, shared, qshared, Qn, Q, At, R, x, pc, err, cur, prev, work, held>>

\* "U[c] = A[c]": the list object itself, not a copy of it.
list_SameObject(v) == [vec |-> v, shared |-> TRUE]

\* list(v): a new list object with the items of v.
list(v) == [vec |-> v, shared |-> FALSE]

\* projection_value returning 0 for a zero vector u instead of dividing by 0.
projection_value_ZeroGuard(AA, UU, i, j) ==
    LET f_u == mul(AA[i], UU[j])
        u_u == mul(UU[j], UU[j])
    IN IF Failed(f_u) THEN f_u
       ELSE IF Failed(u_u) THEN u_u
       ELSE IF IsZero(u_u.val) THEN Ok(Zero)
       ELSE Ok(Divide(f_u.val, u_u.val))

\* projection_value dividing by < v, v > instead of < u, u >.
projection_value_OverOwnNorm(AA, UU, i, j) ==
    LET f_u == mul(AA[i], UU[j])
        f_f == mul(AA[i], AA[i])
    IN IF Failed(f_u) THEN f_u
       ELSE IF IsZero(f_f.val) THEN Raise("ZeroDivisionError")
       ELSE Ok(Divide(f_u.val, f_f.val))

\* projection_value(A, U, i, j), lines 236-240
projection_value(AA, UU, i, j) ==
    LET f == AA[i]
        u == UU[j]
        f_u == mul(f, u)
        u_u == mul(u, u)
    IN IF Failed(f_u) THEN f_u
       ELSE IF Failed(u_u) THEN u_u
       ELSE IF IsZero(u_u.val) THEN Raise("ZeroDivisionError")
       ELSE Ok(Divide(f_u.val, u_u.val))

\* lines 180-181 with "+=" for "-=".
RECURSIVE SubtractProjection_Added(_, _, _, _)
SubtractProjection_Added(Uc, Up, proj, n) ==
    IF n = 0 THEN Ok(Uc)
    ELSE LET before == SubtractProjection_Added(Uc, Up, proj, n - 1)
         IN IF Failed(before) THEN before
            ELSE IF n > Len(Uc) \/ n > Len(Up) THEN Raise("IndexError")
            ELSE Ok([before.val EXCEPT ![n] = Add(before.val[n], Times(proj, Up[n]))])

\* lines 180-181: for i in range(n): U[current_column][i] -= proj * U[prev_column][i]
RECURSIVE SubtractProjection(_, _, _, _)
SubtractProjection(Uc, Up, proj, n) ==
    IF n = 0 THEN Ok(Uc)
    ELSE LET before == SubtractProjection(Uc, Up, proj, n - 1)
         IN IF Failed(before) THEN before
            ELSE IF n > Len(Uc) \/ n > Len(Up) THEN Raise("IndexError")
            ELSE Ok([before.val EXCEPT ![n] = Sub(before.val[n], Times(proj, Up[n]))])

\* the vector divided by its squared norm: the square root forgotten.
NormalizeVector_BySquaredNorm(u, n) ==
    LET length == Dot(u, u)
    IN IF n = 0 THEN Ok(<<>>)
       ELSE IF Len(u) = 0 THEN Raise("IndexError")
       ELSE IF IsZero(length) THEN Raise("ZeroDivisionError")
       ELSE IF n > Len(u) THEN Raise("IndexError")
       ELSE Ok([i \in 1..n |-> Divide(u[i], length)])

\* a vector of norm 0 left as it is instead of divided.
NormalizeVector_SkipZero(u, n) ==
    LET length == get_vector_norm(u)
    IN IF n = 0 THEN Ok(<<>>)
       ELSE IF Len(u) = 0 \/ n > Len(u) THEN Raise("IndexError")
       ELSE IF IsZero(length) THEN Ok([i \in 1..n |-> u[i]])
       ELSE Ok([i \in 1..n |-> Divide(u[i], length)])

\* "Q = U": the lists of U themselves, written in place.
zeros_SameObject(m, n) == [val |-> U, shared |-> TRUE]

\* line 205: Q = [[0] * n for _ in range(m)], m new lists of n zeros
zeros(m, n) == [val |-> [k \in 1..m |-> [i \in 1..n |-> Zero]], shared |-> FALSE]

\* lines 208-212 for one vector: the vector divided by its norm
NormalizeVector(u, n) ==
    LET length == get_vector_norm(u)
    IN IF n = 0 THEN Ok(<<>>)
       ELSE IF Len(u) = 0 THEN Raise("IndexError")
       ELSE IF IsZero(length) THEN Raise("ZeroDivisionError")
       ELSE IF n > Len(u) THEN Raise("IndexError")
       ELSE Ok([i \in 1..n |-> Divide(u[i], length)])

\* normalize_matrix(U), lines 204-213: the first vector that raises ends the call
RECURSIVE NormalizeUpTo(_, _, _)
NormalizeUpTo(UU, n, k) ==
    IF k = 0 THEN Ok(<<>>)
    ELSE LET before == NormalizeUpTo(UU, n, k - 1)
             this == NormalizeVector(UU[k], n)
         IN IF Failed(before) THEN before
            ELSE IF Failed(this) THEN this
            ELSE Ok(Append(before.val, this.val))

normalize_matrix(UU) == NormalizeUpTo(UU, Len(UU[1]), Len(UU))

\* R = Q @ A: the transpose forgotten.
get_r_matrix_NoTranspose(QQ, AA) == matmul(QQ, AA)

\* R = A.T @ Q: the factors swapped.
get_r_matrix_Swapped(QQ, AA) ==
    LET AAt == transpose(AA)
    IN IF Failed(AAt) THEN AAt ELSE matmul(AAt.val, QQ)

\* get_r_matrix(Q, A), line 259
get_r_matrix(QQ, AA) ==
    LET Qt == transpose(QQ)
    IN IF Failed(Qt) THEN Qt ELSE matmul(Qt.val, AA)

\* x = R @ C: R used where its inverse belongs.
get_equation_params_NoInverse(QQ, RR, bb) ==
    LET bcol == transpose(<<bb>>)
        Qt == transpose(QQ)
        C == matmul(Qt.val, bcol.val)
        RC == matmul(RR, C.val)
    IN IF Failed(bcol) THEN bcol
       ELSE IF Failed(Qt) THEN Qt
       ELSE IF Failed(C) THEN C
       ELSE IF Failed(RC) THEN RC
       ELSE Ok(transpose(RC.val).val[1])

\* get_equation_params(Q, R, b), lines 314-325
get_equation_params(QQ, RR, bb) ==
    LET bcol == transpose(<<bb>>)
        Qt == transpose(QQ)
        C == matmul(Qt.val, bcol.val)
        r_inverse == inverse(RR)
        I == matmul(RR, r_inverse.val)
        RC == matmul(r_inverse.val, C.val)
    IN IF Failed(bcol) THEN bcol
       ELSE IF Failed(Qt) THEN Qt
       ELSE IF Failed(C) THEN C
       ELSE IF Failed(r_inverse) THEN r_inverse
       ELSE IF Failed(I) THEN I
       ELSE IF Failed(RC) THEN RC
       ELSE Ok(transpose(RC.val).val[1])

----------------------------------------------------------------------------
(* The calls checked *)

IntMatrix(X) == [i \in 1..Len(X) |-> [j \in 1..Len(X[i]) |-> Int2Num(X[i][j])]]

\* items 0..MaxVal for the longest vectors, -MaxVal..MaxVal for the shorter ones
NumVals(n) == {Int2Num(k) : k \in (IF n < MaxRows THEN 0 - MaxVal ELSE 0)..MaxVal}
Vectors(n) == [1..n -> NumVals(n)]
Matrices(m, n) == [1..m -> Vectors(n)]

\* m coefficient vectors and the answer vector, all of n items
WellFormed == UNION {Matrices(m + 1, n) : m \in 1..MaxCols, n \in 1..MaxRows}

\* one vector an item shorter than the others
Ragged ==
    UNION {{[X EXCEPT ![k] = SubSeq(X[k], 1, 1)] : k \in 1..Len(X)} :
              X \in UNION {Matrices(m + 1, 2) : m \in 1..MaxCols}}

\* systems with larger and with negative coefficients
Examples ==
    {IntMatrix(X) : X \in {
        <<<<1, 0>>, <<0, 1>>, <<3, 5>>>>,
        <<<<2, 0>>, <<0, 2>>, <<4, 6>>>>,
        <<<<1, 1>>, <<0 - 1, 1>>, <<2, 4>>>>,
        <<<<3, 4>>, <<0 - 4, 3>>, <<5, 10>>>>,
        <<<<1, 2>>, <<3, 4>>, <<5, 6>>>>,
        <<<<2, 0 - 1>>, <<0 - 3, 2>>, <<1, 7>>>>,
        <<<<1, 2, 3>>, <<1, 1, 1>>, <<1, 2, 3>>, <<1, 0, 0>>>>,
        <<<<1, 2, 2>>, <<2, 1, 0 - 2>>, <<2, 0 - 2, 1>>, <<9, 0, 3>>>>,
        <<<<1, 2, 3>>, <<0 - 1, 0, 2>>, <<2, 2, 0 - 3>>, <<1, 2, 3>>>>,
        <<<<1, 2, 3>>, <<1, 1, 1>>, <<6, 0, 0 - 2>>>>,
        <<<<1, 1>>, <<2, 2>>, <<1, 3>>, <<1, 0>>>> }}

Inputs == WellFormed \cup Ragged \cup Examples

Init ==
    /\ M \in Inputs
    /\ A = <<>> /\ b = <<>> /\ U = <<>> /\ shared = {} /\ qshared = FALSE
    /\ Qn = <<>> /\ Q = <<>> /\ At = <<>> /\ R = <<>> /\ x = <<>>
    /\ pc = "split" /\ err = "none"
    /\ cur = 0 /\ prev = 0 /\ work = 0
    /\ held = <<>>

\* solve_with_qr_decomposition line 53, and the call of line 54
Split ==
    /\ pc = "split"
    /\ LET s == split_by_vectors(M)
       IN /\ A' = s.A
          /\ b' = s.b
          /\ held' = s.A
    /\ pc' = "orth_start"
    /\ UNCHANGED <<M, U, shared, qshared, Qn, Q, At, R, x, err, cur, prev, work>>

\* orthogonalize_matrix lines 167-171
OrthogonalizeStart ==
    /\ pc = "orth_start"
    /\ LET m == Len(A)
           u0 == list(A[1])
       IN /\ U' = [k \in 1..m |-> IF k = 1 THEN u0.vec ELSE <<>>]
          /\ shared' = IF u0.shared THEN {1} ELSE {}
    /\ cur' = 2
    /\ pc' = "orth_col"
    /\ UNCHANGED <<M, A, b, qshared, Qn, Q, At, R, x, err, prev, work, held>>

\* orthogonalize_matrix lines 174-175: the next column, copied from A
OrthogonalizeColumn ==
    /\ pc = "orth_col"
    /\ cur <= Len(A)
    /\ LET uc == list(A[cur])
       IN /\ U' = [U EXCEPT ![cur] = uc.vec]
          /\ shared' = IF uc.shared THEN shared \cup {cur} ELSE shared
    /\ prev' = 1
    /\ pc' = "orth_proj"
    /\ UNCHANGED <<M, A, b, qshared, Qn, Q, At, R, x, err, cur, work, held>>

\* orthogonalize_matrix lines 177-181: one projection subtracted from U[cur]
OrthogonalizeProject ==
    /\ pc = "orth_proj"
    /\ LET n == Len(A[1])
           proj == projection_value(A, U, cur, prev)
           sub == SubtractProjection(U[cur], U[prev], proj.val, n)
           raised == IF Failed(proj) THEN proj.err
                     ELSE IF Failed(sub) THEN sub.err ELSE "none"
       IN IF raised # "none"
          THEN /\ pc' = "error"
               /\ err' = raised
               /\ UNCHANGED <<A, U, cur, prev, work>>
          ELSE /\ U' = [U EXCEPT ![cur] = sub.val]
               /\ A' = IF cur \in shared THEN [A EXCEPT ![cur] = sub.val] ELSE A
               /\ work' = work + 1
               /\ IF prev + 1 < cur
                  THEN /\ prev' = prev + 1
                       /\ UNCHANGED <<cur, pc>>
                  ELSE /\ cur' = cur + 1
                       /\ pc' = "orth_col"
                       /\ UNCHANGED prev
               /\ UNCHANGED err
    /\ UNCHANGED <<M, b, shared, qshared, Qn, Q, At, R, x, held>>

\* orthogonalize_matrix line 182: return U (gram_schmidt_orthonormalization line 136)
OrthogonalizeReturn ==
    /\ pc = "orth_col"
    /\ cur > Len(A)
    /\ pc' = "normalize"
    /\ UNCHANGED <<M, A, b, U, shared, qshared, Qn, Q, At, R, x, err, cur, prev, work, held>>

\* gram_schmidt_orthonormalization lines 137-138: Q = normalize_matrix(U)
\* The items written to Q[k] are written to U[k] when the two are one list
\* object, and to A[k] when U[k] and A[k] are one too.
Normalize ==
    /\ pc = "normalize"
    /\ LET n == Len(U[1])
           rows == zeros(Len(U), n)
           res == normalize_matrix(U)
           \* the vectors normalized before the call returned or raised
           reached == {k \in 1..Len(U) :
                          \A j \in 1..k : ~Failed(NormalizeVector(U[j], n))}
           written == [k \in 1..Len(U) |->
                          IF rows.shared /\ k \in reached
                          THEN NormalizeVector(U[k], n).val ELSE U[k]]
       IN /\ qshared' = rows.shared
          /\ U' = written
          /\ A' = [k \in 1..Len(A) |-> IF k \in shared THEN written[k] ELSE A[k]]
          /\ IF Failed(res)
             THEN /\ pc' = "error"
                  /\ err' = res.err
                  /\ UNCHANGED <<Qn, work>>
             ELSE /\ Qn' = res.val
                  /\ work' = work + 1
                  /\ pc' = "r_matrix"
                  /\ UNCHANGED err
    /\ UNCHANGED <<M, b, shared, Q, At, R, x, cur, prev, held>>

\* qr_decomposition lines 93-97, returning to solve_with_qr_decomposition line 54
RMatrix ==
    /\ pc = "r_matrix"
    /\ LET q == transpose(Qn)
           a == transpose(A)
           r == get_r_matrix(q.val, a.val)
           raised == IF Failed(q) THEN q.err
                     ELSE IF Failed(a) THEN a.err
                     ELSE IF Failed(r) THEN r.err ELSE "none"
       IN IF raised # "none"
          THEN /\ pc' = "error"
               /\ err' = raised
               /\ UNCHANGED <<Q, At, R, work>>
          ELSE /\ Q' = q.val
               /\ At' = a.val
               /\ R' = r.val
               /\ work' = work + 1
               /\ pc' = "params"
               /\ UNCHANGED err
    /\ UNCHANGED <<M, A, b, U, shared, qshared, Qn, x, cur, prev, held>>

\* solve_with_qr_decomposition lines 59-60
Params ==
    /\ pc = "params"
    /\ LET res == get_equation_params(Q, R, b)
       IN IF Failed(res)
          THEN /\ pc' = "error"
               /\ err' = res.err
               /\ UNCHANGED <<x, work>>
          ELSE /\ x' = res.val
               /\ work' = work + 1
               /\ pc' = "done"
               /\ UNCHANGED err
    /\ UNCHANGED <<M, A, b, U, shared, qshared, Qn, Q, At, R, cur, prev, held>>

Next ==
    \/ Split
    \/ OrthogonalizeStart
    \/ OrthogonalizeColumn
    \/ OrthogonalizeProject
    \/ OrthogonalizeReturn
    \/ Normalize
    \/ RMatrix
    \/ Params

Spec == Init /\ [][Next]_vars

\* Every number in the state is of the form (n/d)*sqrt(r): the exact
\* arithmetic above represents every value the calls checked compute.
AllNumbers ==
    LET OfMatrix(X) == UNION {{X[i][j] : j \in 1..Len(X[i])} : i \in 1..Len(X)}
    IN OfMatrix(U) \cup OfMatrix(Qn) \cup OfMatrix(Q) \cup OfMatrix(R) \cup {x[i] : i \in 1..Len(x)}
NoIrrationalSum == \A v \in AllNumbers : ~IsNaR(v)

----------------------------------------------------------------------------
(* Vocabulary of the properties *)

Rect(X) == X # <<>> /\ IsRectangular(X)

Gram(X) == [i \in 1..Len(X) |-> [j \in 1..Len(X) |-> Dot(X[i], X[j])]]

\* the vectors of X are linearly independent: their Gram determinant is not 0
Independent(X) == Rect(X) /\ ~IsZero(Det(Gram(X)))

IsZeroVector(v) == \A i \in 1..Len(v) : IsZero(v[i])
HasZeroColumn(X) == \E k \in 1..Len(X) : IsZeroVector(X[k])
HasDuplicateColumn(X) == \E j, k \in 1..Len(X) : j # k /\ X[j] = X[k]

Identity(m) == [i \in 1..m |-> [j \in 1..m |-> IF i = j THEN One ELSE Zero]]

\* item i of A.x, A taken as the list of its columns
RECURSIVE LinComb(_, _, _, _)
LinComb(X, v, i, j) ==
    IF j = 0 THEN Zero ELSE Add(LinComb(X, v, i, j - 1), Times(X[j][i], v[j]))

\* orthogonalize_matrix has finished its loop: U is what it returns
OrthReturned == A # <<>> /\ U # <<>> /\ cur > Len(A)
\* qr_decomposition has returned Q and R
QRReturned == Q # <<>>
Ended == pc \in {"done", "error"}

IdentitySystem == IntMatrix(<<<<1, 0>>, <<0, 1>>, <<3, 5>>>>)
DiagonalSystem == IntMatrix(<<<<2, 0>>, <<0, 2>>, <<4, 6>>>>)

----------------------------------------------------------------------------
(* C1: for an augmented matrix whose coefficient part A is square with      *)
(* linearly independent columns, solve_with_qr_decomposition returns x of   *)
(* length m with A.x = b; the identity system with b = [3,5] gives [3,5]    *)
(* and A = [[2,0],[0,2]] with b = [4,6] gives [2,3].                        *)
SolveSolvesSystem ==
    /\ (Ended /\ IsRectangular(M) /\ Independent(A) /\ Len(A) = Len(A[1]))
          => /\ pc = "done"
             /\ Len(x) = Len(A)
             /\ \A i \in 1..Len(b) : LinComb(A, x, i, Len(A)) = b[i]
    /\ (Ended /\ M = IdentitySystem) => x = <<Int2Num(3), Int2Num(5)>>
    /\ (Ended /\ M = DiagonalSystem) => x = <<Int2Num(2), Int2Num(3)>>

SolveSolvesSystem_Witness ==
    /\ pc = "done"
    /\ Len(A) = 3 /\ Len(A[1]) = 3
    /\ \E i \in 1..3 : ~IsZero(x[i])
    /\ \E i \in 1..3 : x[i].d # 1

(* C2: for full-column-rank A the Q and R qr_decomposition returns satisfy  *)
(* matmul(Q, R) = A element by element, A in the orientation of Q.          *)
QRReconstructsA ==
    (QRReturned /\ Independent(held)) => matmul(Q, R) = transpose(held)

QRReconstructsA_Witness ==
    /\ QRReturned
    /\ Len(held) = 2 /\ Len(held[1]) = 3
    /\ \E i \in 1..3 : Q[i][2].r # 1
    /\ matmul(Q, R) = Ok(At)

(* C3: the Q of gram_schmidt_orthonormalization / qr_decomposition has      *)
(* orthonormal columns: transpose(Q).Q = Identity.                          *)
QOrthonormal ==
    /\ (Qn # <<>> /\ Independent(held)) =>
          \A i, j \in 1..Len(Qn) : Dot(Qn[i], Qn[j]) = (IF i = j THEN One ELSE Zero)
    /\ (QRReturned /\ Independent(held)) =>
          matmul(transpose(Q).val, Q) = Ok(Identity(Len(held)))

QOrthonormal_Witness ==
    /\ QRReturned
    /\ Len(held) = 3
    /\ \A k \in 1..3 : \E i \in 1..3 : Q[i][k].r # 1

ShapeCheckedFirst ==
    ~IsRectangular(M) =>
        /\ work = 0
        /\ pc # "done"
        /\ pc = "error" => err = "ShapeMismatch"

(* C6: for m linearly independent columns of length n, orthogonalize_matrix *)
(* returns U of the same shape with pairwise orthogonal columns.            *)
UOrthogonal ==
    Independent(held) =>
        /\ (pc = "error" => QRReturned)
        /\ OrthReturned =>
              /\ Len(U) = Len(held)
              /\ \A k \in 1..Len(U) : Len(U[k]) = Len(held[k])
              /\ \A i, j \in 1..Len(U) : i # j => Dot(U[i], U[j]) = Zero

UOrthogonal_Witness ==
    /\ OrthReturned /\ Independent(held)
    /\ Len(U) = 3
    /\ \A k \in 2..3 : U[k] # A[k]

(* C7: the R qr_decomposition returns for full-column-rank A with m columns *)
(* is m x m and upper-triangular: R[i][j] = 0 whenever i > j.               *)
RUpperTriangular ==
    (QRReturned /\ Independent(held)) =>
        /\ Len(R) = Len(held)
        /\ \A i \in 1..Len(R) : Len(R[i]) = Len(held)
        /\ \A i, j \in 1..Len(R) : i > j => R[i][j] = Zero

RUpperTriangular_Witness ==
    /\ QRReturned
    /\ Len(R) = 3
    /\ \A i, j \in 1..3 : i <= j => R[i][j] # Zero

(* C9 as stated: whenever some orthogonalized column U[p], 0 <= p < m, has  *)
(* zero squared norm, orthogonalize_matrix raises instead of returning U.   *)
ZeroNormNeverReturned ==
    (Rect(held) /\ OrthReturned) => \A k \in 1..Len(U) : ~IsZero(Dot(U[k], U[k]))

(* C9 amended: whenever some orthogonalized column other than the last has  *)
(* zero squared norm, orthogonalize_matrix ends in a division by zero       *)
(* instead of returning U; a U whose last column alone has zero norm is     *)
(* returned.                                                                *)
ZeroNormBeforeLastRaises ==
    Rect(held) =>
        /\ OrthReturned => \A k \in 1..(Len(U) - 1) : ~IsZero(Dot(U[k], U[k]))
        /\ (pc = "error" /\ ~OrthReturned) =>
              /\ err = "ZeroDivisionError"
              /\ IsZero(Dot(U[prev], U[prev]))

ZeroNormBeforeLastRaises_Witness ==
    /\ pc = "error" /\ err = "ZeroDivisionError" /\ ~OrthReturned
    /\ Len(held) = 3 /\ prev = 2
    /\ ~HasZeroColumn(held) /\ ~HasDuplicateColumn(held)
    /\ IsZeroVector(U[2])

\* A[c] - sum over p = 1..k of (<A[c],U[p]> / <U[p],U[p]>) * U[p], item i
RECURSIVE ProjectionSum(_, _, _)
ProjectionSum(c, k, i) ==
    IF k = 0 THEN Zero
    ELSE Add(ProjectionSum(c, k - 1, i),
             Times(Divide(Dot(held[c], U[k]), Dot(U[k], U[k])), U[k][i]))
GramSchmidtColumn(c, k) ==
    [i \in 1..Len(held[c]) |-> Sub(held[c][i], ProjectionSum(c, k, i))]

(* C10: orthogonalize_matrix sets U[0] = A[0] and, for each column c and    *)
(* each prior column p in increasing order, subtracts                       *)
(* (<A[c],U[p]> / <U[p],U[p]>) * U[p]; column c ends as                      *)
(* A[c] - sum over p < c of (<A[c],U[p]> / <U[p],U[p]>) * U[p].              *)
ClassicalGramSchmidt ==
    U # <<>> =>
        /\ U[1] = held[1]
        /\ \A k \in 2..Len(U) : k < cur => U[k] = GramSchmidtColumn(k, k - 1)
        /\ pc = "orth_proj" => U[cur] = GramSchmidtColumn(cur, prev - 1)

ClassicalGramSchmidt_Witness ==
    /\ pc = "orth_proj" /\ cur = 3 /\ prev = 2
    /\ U[2] # held[2]
    /\ U[3] # held[3]
    /\ \E i \in 1..Len(U[3]) : U[3][i].d # 1

(* C11: orthogonalize_matrix, normalize_matrix and qr_decomposition never   *)
(* modify the matrix passed in: the caller's A holds the same values after  *)
(* the call as before, column 0 included, also when the call ends in an     *)
(* error, and normalize_matrix leaves its argument U as orthogonalize_matrix *)
(* returned it; the returned U shares no column with A and the returned Q   *)
(* none with U, so a write to the output cannot reach the input.            *)
InputsUnchanged ==
    /\ A # <<>> => A = held
    /\ shared = {}
    /\ ~qshared
    /\ OrthReturned =>
          \A k \in 1..Len(U) : U[k] = GramSchmidtColumn(k, k - 1)

InputsUnchanged_Witness ==
    /\ pc = "error" /\ err = "ZeroDivisionError" /\ OrthReturned
    /\ Len(held) = 3
    /\ U[2] # held[2] /\ U[3] # held[3]
    /\ ~IsZeroVector(U[2])
    /\ A = held

====
